---- MODULE Spec2Model ----
(***************************************************************************)
(* Neo4JDownloader.retrieve_subgraph (src/utils/neo4jdownloader.py).       *)
(*                                                                         *)
(* One call of retrieve_subgraph against a graph store.  The store's       *)
(* content (store_rels, NodeLabels), the rows of the filter query          *)
(* (seed_rows), the depth and the caller's schema (relationships) are the  *)
(* inputs; the call's local variables and its outcome are the state.       *)
(* A Python dict is a sequence of <<key, value>> pairs in insertion order. *)
(***************************************************************************)
EXTENDS Integers, Sequences, FiniteSets, TLC

\* ---------------------------------------------------------------- bounds
MaxRels == 2
MaxDepth == 2

\* ------------------------------------------------------------ dict model
Keys(d) == {d[i][1] : i \in 1..Len(d)}

Has(d, k) == k \in Keys(d)

Get(d, k) == d[CHOOSE i \in 1..Len(d) : d[i][1] = k][2]

Put(d, k, v) ==
    IF Has(d, k)
    THEN LET i == CHOOSE j \in 1..Len(d) : d[j][1] = k
         IN  SubSeq(d, 1, i - 1) \o << <<k, v>> >> \o SubSeq(d, i + 1, Len(d))
    ELSE Append(d, <<k, v>>)

Range(s) == {s[i] : i \in 1..Len(s)}

\* ------------------------------------------------------------ the store
Nodes == {1, 2, 3}

\* n.labels, in iteration order: node 1 is a User, node 2 a Repo, node 3 both
NodeLabels(n) ==
    CASE n = 1 -> <<"User">>
      [] n = 2 -> <<"Repo">>
      [] OTHER -> <<"User", "Repo">>

\* dict(n)
NodeProps(n) == [name |-> n]

RelTypes == {"owns", "forked_from"}

\* a relationship as the store holds it, before it gets its identity
RelShapes == [type : RelTypes, start : Nodes, end : Nodes]

ShapeRank(s) == (IF s.type = "owns" THEN 0 ELSE 9) + 3 * (s.start - 1) + (s.end - 1)

\* the store's relationships: identity i is the position, the property map is
\* distinct per relationship
StoreContents ==
    { [i \in 1..Len(q) |->
          [id |-> i, type |-> q[i].type, start |-> q[i].start, end |-> q[i].end,
           props |-> [feat |-> 10 * i]]] :
      q \in { s \in UNION {[1..n -> RelShapes] : n \in 0..MaxRels} :
                \A i \in 1..Len(s) - 1 : ShapeRank(s[i]) <= ShapeRank(s[i + 1]) } }

\* the rows a filter query can yield: record["n"].id per row
SeedRowChoices == {<<>>, <<1>>, <<2>>, <<3>>, <<1, 2>>, <<1, 3>>, <<2, 3>>, <<1, 2, 3>>}

\* the relationships argument: rel type -> {type name -> {source, target}}
SchemaChoices ==
    { << <<"owns", << <<"owns_repo", [source |-> "User", target |-> "Repo"]>> >> >> >>,
      << <<"owns", << <<"owns_repo", [source |-> "User", target |-> "Repo"]>>,
                      <<"owned_by", [source |-> "Repo", target |-> "User"]>> >> >> >>,
      << <<"owns", << <<"owns_repo", [source |-> "User", target |-> "Repo"]>>,
                      <<"holds", [source |-> "User", target |-> "Repo"]>> >> >> >>,
      << <<"owns", << <<"owns_repo", [source |-> "User", target |-> "Repo"]>> >> >>,
         <<"forked_from", << <<"fork", [source |-> "Repo", target |-> "Repo"]>> >> >> >> }

VARIABLES
    relationships,     \* argument: the schema
    store_rels,        \* the store's relationships
    seed_rows,         \* the rows the store has for cypher_filter_query
    depth,             \* argument
    pc,                \* position in retrieve_subgraph
    issued,            \* the queries handed to session.run, in order
    failed_row,        \* -1, or the number of rows the store gave before it raised
    seed_ids,
    paths,
    done_paths,        \* number of records of paths the loop has processed
    nodes_ids,
    nodes_features,
    tmp_edges,
    edges_indices,
    edges_attributes,
    classified,        \* number of items of tmp_edges the loop has processed
    kind,              \* "pending", "returned" or "raised"
    error,             \* the exception raised, "" if none
    result             \* <<>> or <<the returned tuple>>

vars == <<relationships, store_rels, seed_rows, depth, pc, issued, failed_row,
          seed_ids, paths, done_paths, nodes_ids, nodes_features, tmp_edges,
          edges_indices, edges_attributes, classified, kind, error, result>>

\* ------------------------------------------------- the expansion query
\* MATCH p = (start)-[*1..depth]-(other): undirected, no relationship twice
Extend(rels, p) ==
    LET last == p.nodes[Len(p.nodes)]
    IN  { [nodes |-> Append(p.nodes,
                            IF rels[i].start = last THEN rels[i].end ELSE rels[i].start),
           relationships |-> Append(p.relationships, i)] :
          i \in { j \in 1..Len(rels) :
                    /\ j \notin Range(p.relationships)
                    /\ (rels[j].start = last \/ rels[j].end = last) } }

RECURSIVE PathsOfLen(_, _, _)
PathsOfLen(rels, seeds, k) ==
    IF k = 0
    THEN { [nodes |-> <<s>>, relationships |-> <<>>] : s \in seeds }
    ELSE UNION { Extend(rels, p) : p \in PathsOfLen(rels, seeds, k - 1) }

RECURSIVE SetToSeq(_)
SetToSeq(S) ==
    IF S = {} THEN <<>>
    ELSE LET x == CHOOSE y \in S : TRUE IN <<x>> \o SetToSeq(S \ {x})

\* the rows of expand_query, shortest paths first
RECURSIVE ExpandRows(_, _, _)
ExpandRows(rels, seeds, d) ==
    IF d = 0 THEN <<>>
    ELSE ExpandRows(rels, seeds, d - 1) \o SetToSeq(PathsOfLen(rels, seeds, d))

\* ------------------------------------------------------ step 3: nodes
\* fault: the membership test of line 155 left out
NotInBucketAlways(bucket, id) == TRUE

NotInBucket(bucket, id) == \A i \in 1..Len(bucket) : bucket[i] # id

\* lines 151-157, b = [ids |-> nodes_ids, feats |-> nodes_features]
AddToBucket(b, lab, n) ==
    LET b1 == IF ~Has(b.ids, lab)
              THEN [ids |-> Put(b.ids, lab, <<>>), feats |-> Put(b.feats, lab, <<>>)]
              ELSE b
    IN  IF NotInBucket(Get(b1.ids, lab), n)
        THEN [ids |-> Put(b1.ids, lab, Append(Get(b1.ids, lab), n)),
              feats |-> Put(b1.feats, lab, Append(Get(b1.feats, lab), NodeProps(n)))]
        ELSE b1

RECURSIVE AddNodeLabels(_, _, _)
AddNodeLabels(b, n, labs) ==
    IF labs = <<>> THEN b
    ELSE AddNodeLabels(AddToBucket(b, Head(labs), n), n, Tail(labs))

RECURSIVE AddNodes(_, _)
AddNodes(b, ns) ==
    IF ns = <<>> THEN b
    ELSE AddNodes(AddNodeLabels(b, Head(ns), NodeLabels(Head(ns))), Tail(ns))

\* ---------------------------------------------- step 3: relationships
\* fault: start and end node taken the wrong way round
RawEdgeSwapped(r) == <<r.end, r.start, r.props, NodeLabels(r.start), NodeLabels(r.end)>>

\* the tuple of lines 166-172
RawEdge(r) == <<r.start, r.end, r.props, NodeLabels(r.start), NodeLabels(r.end)>>

AddRel(t, r) ==
    LET t1 == IF ~Has(t, r.type) THEN Put(t, r.type, <<>>) ELSE t
    IN  Put(t1, r.type, Append(Get(t1, r.type), RawEdge(r)))

RECURSIVE AddRels(_, _, _)
AddRels(t, rels, rids) ==
    IF rids = <<>> THEN t
    ELSE AddRels(AddRel(t, rels[Head(rids)]), rels, Tail(rids))

\* -------------------------------------------------- step 4: classify
\* fault: relationships.get(reltype, {}) in place of relationships[reltype]
SchemaLookupLenient(schema, reltype) ==
    [ok |-> TRUE, error |-> "",
     rel_def |-> IF Has(schema, reltype) THEN Get(schema, reltype) ELSE <<>>]

\* relationships[reltype]: a missing key raises KeyError
SchemaLookup(schema, reltype) ==
    IF Has(schema, reltype)
    THEN [ok |-> TRUE, error |-> "", rel_def |-> Get(schema, reltype)]
    ELSE [ok |-> FALSE, error |-> "KeyError", rel_def |-> <<>>]

RECURSIVE LabelToType(_)
LabelToType(rel_def) ==
    IF rel_def = <<>> THEN <<>>
    ELSE LET n == Len(rel_def)
             info == rel_def[n][2]
         IN  Put(LabelToType(SubSeq(rel_def, 1, n - 1)),
                 <<info.source, info.target>>, rel_def[n][1])

EmptyGroups(rel_def) == [i \in 1..Len(rel_def) |-> <<rel_def[i][1], <<>> >>]

\* the (sl, tl) pairs in the order of the nested loops of lines 193-194
LabelPairs(src_labels, dst_labels) ==
    [k \in 1..(Len(src_labels) * Len(dst_labels)) |->
        <<src_labels[((k - 1) \div Len(dst_labels)) + 1],
          dst_labels[((k - 1) % Len(dst_labels)) + 1]>>]

RECURSIVE AppendMatches(_, _, _, _)
AppendMatches(grouped, label_to_type, pairs, e) ==
    IF pairs = <<>> THEN grouped
    ELSE LET g1 == IF Has(label_to_type, Head(pairs))
                   THEN LET typename == Get(label_to_type, Head(pairs))
                        IN  Put(grouped, typename,
                                Append(Get(grouped, typename), <<e[1], e[2], e[3]>>))
                   ELSE grouped
         IN  AppendMatches(g1, label_to_type, Tail(pairs), e)

\* fault: an edge no pair matches is kept in the first group
ClassifyEdgeKeepUnmatched(grouped, label_to_type, e) ==
    LET g == AppendMatches(grouped, label_to_type, LabelPairs(e[4], e[5]), e)
    IN  IF g = grouped /\ grouped # <<>>
        THEN Put(grouped, grouped[1][1], Append(grouped[1][2], <<e[1], e[2], e[3]>>))
        ELSE g

\* lines 193-197 for one raw edge
ClassifyEdge(grouped, label_to_type, e) ==
    AppendMatches(grouped, label_to_type, LabelPairs(e[4], e[5]), e)

RECURSIVE ClassifyEdges(_, _, _)
ClassifyEdges(grouped, label_to_type, triples) ==
    IF triples = <<>> THEN grouped
    ELSE ClassifyEdges(ClassifyEdge(grouped, label_to_type, Head(triples)),
                       label_to_type, Tail(triples))

\* fault: empty groups are emitted too
SkipGroupNever(items) == FALSE

\* line 200: if not items: continue
SkipGroup(items) == items = <<>>

Column(items, k) == [i \in 1..Len(items) |-> items[i][k]]

\* fault: the property dictionaries in the opposite order
FeatsReversed(items) == [i \in 1..Len(items) |-> items[Len(items) + 1 - i][3]]

\* line 205
Feats(items) == Column(items, 3)

\* lines 199-208, out = [idx |-> edges_indices[reltype], attr |-> edges_attributes[reltype]]
RECURSIVE Emit(_, _)
Emit(out, grouped) ==
    IF grouped = <<>> THEN out
    ELSE LET typename == Head(grouped)[1]
             items == Head(grouped)[2]
         IN  IF SkipGroup(items) THEN Emit(out, Tail(grouped))
             ELSE Emit([idx |-> Put(out.idx, typename,
                                    <<Column(items, 1), Column(items, 2)>>),
                        attr |-> Put(out.attr, typename, Feats(items))],
                       Tail(grouped))

\* --------------------------------------------------------- outcomes
\* fault: the error is swallowed and what was built so far is returned
ReturnPartial(snapshot) == [kind |-> "returned", error |-> "", result |-> <<snapshot>>]

\* no except clause in retrieve_subgraph: a store error leaves the with block
OnStoreError(snapshot) == [kind |-> "raised", error |-> "Neo4jError", result |-> <<>>]

\* fault: the empty-seed return left out
NoSeedsNever(ids) == FALSE

\* line 121: if not seed_ids
NoSeeds(ids) == ids = <<>>

Snapshot(ni, nf, ei, ea) ==
    [nodes_ids |-> ni, nodes_features |-> nf, edges_indices |-> ei, edges_attributes |-> ea]

\* ------------------------------------------------------------ Init
Init ==
    /\ relationships \in SchemaChoices
    /\ store_rels \in StoreContents
    /\ seed_rows \in SeedRowChoices
    /\ depth \in 1..MaxDepth
    /\ pc = "start"
    /\ issued = <<>>
    /\ failed_row = -1
    /\ seed_ids = <<>>
    /\ paths = <<>>
    /\ done_paths = 0
    /\ nodes_ids = <<>>
    /\ nodes_features = <<>>
    /\ tmp_edges = <<>>
    /\ edges_indices = <<>>
    /\ edges_attributes = <<>>
    /\ classified = 0
    /\ kind = "pending"
    /\ error = ""
    /\ result = <<>>

inputs == <<relationships, store_rels, seed_rows, depth>>

Finish(o) ==
    /\ pc' = "done"
    /\ kind' = o.kind
    /\ error' = o.error
    /\ result' = o.result

\* lines 118-119, the store answers
RunFilterQuery ==
    /\ pc = "start"
    /\ issued' = Append(issued, "filter")
    /\ seed_ids' = seed_rows
    /\ pc' = "filtered"
    /\ UNCHANGED <<inputs, failed_row, paths, done_paths, nodes_ids, nodes_features,
                   tmp_edges, edges_indices, edges_attributes, classified, kind,
                   error, result>>

\* lines 118-119, the store raises after k rows
FilterQueryFails ==
    /\ pc = "start"
    /\ issued' = Append(issued, "filter")
    /\ \E k \in 0..Len(seed_rows) : failed_row' = k
    /\ Finish(OnStoreError(Snapshot(nodes_ids, nodes_features,
                                    edges_indices, edges_attributes)))
    /\ UNCHANGED <<inputs, seed_ids, paths, done_paths, nodes_ids, nodes_features,
                   tmp_edges, edges_indices, edges_attributes, classified>>

\* lines 121-122
ReturnEmpty ==
    /\ pc = "filtered"
    /\ NoSeeds(seed_ids)
    /\ Finish([kind |-> "returned", error |-> "",
               result |-> <<Snapshot(<<>>, <<>>, <<>>, <<>>)>>])
    /\ UNCHANGED <<inputs, issued, failed_row, seed_ids, paths, done_paths, nodes_ids,
                   nodes_features, tmp_edges, edges_indices, edges_attributes,
                   classified>>

\* lines 125-142, the store answers
RunExpandQuery ==
    /\ pc = "filtered"
    /\ ~NoSeeds(seed_ids)
    /\ issued' = Append(issued, "expand")
    /\ paths' = ExpandRows(store_rels, Range(seed_ids), depth)
    /\ pc' = "collect"
    /\ UNCHANGED <<inputs, failed_row, seed_ids, done_paths, nodes_ids, nodes_features,
                   tmp_edges, edges_indices, edges_attributes, classified, kind,
                   error, result>>

\* lines 132-142, the store raises after k rows
ExpandQueryFails ==
    /\ pc = "filtered"
    /\ ~NoSeeds(seed_ids)
    /\ issued' = Append(issued, "expand")
    /\ \E k \in 0..Len(ExpandRows(store_rels, Range(seed_ids), depth)) : failed_row' = k
    /\ Finish(OnStoreError(Snapshot(nodes_ids, nodes_features,
                                    edges_indices, edges_attributes)))
    /\ UNCHANGED <<inputs, seed_ids, paths, done_paths, nodes_ids, nodes_features,
                   tmp_edges, edges_indices, edges_attributes, classified>>

\* lines 144-172, one record of paths
ProcessPath ==
    /\ pc = "collect"
    /\ done_paths < Len(paths)
    /\ LET p == paths[done_paths + 1]
           b == AddNodes([ids |-> nodes_ids, feats |-> nodes_features], p.nodes)
       IN  /\ nodes_ids' = b.ids
           /\ nodes_features' = b.feats
           /\ tmp_edges' = AddRels(tmp_edges, store_rels, p.relationships)
    /\ done_paths' = done_paths + 1
    /\ UNCHANGED <<inputs, pc, issued, failed_row, seed_ids, paths, edges_indices,
                   edges_attributes, classified, kind, error, result>>

\* line 174, the loop over paths is exhausted
StartClassify ==
    /\ pc = "collect"
    /\ done_paths = Len(paths)
    /\ pc' = "classify"
    /\ UNCHANGED <<inputs, issued, failed_row, seed_ids, paths, done_paths, nodes_ids,
                   nodes_features, tmp_edges, edges_indices, edges_attributes,
                   classified, kind, error, result>>

\* lines 174-208, one item of tmp_edges whose type the schema has
ClassifyRelType ==
    /\ pc = "classify"
    /\ classified < Len(tmp_edges)
    /\ LET reltype == tmp_edges[classified + 1][1]
           triples == tmp_edges[classified + 1][2]
           look == SchemaLookup(relationships, reltype)
           grouped == ClassifyEdges(EmptyGroups(look.rel_def),
                                    LabelToType(look.rel_def), triples)
           out == Emit([idx |-> <<>>, attr |-> <<>>], grouped)
       IN  /\ look.ok
           /\ edges_indices' = Put(edges_indices, reltype, out.idx)
           /\ edges_attributes' = Put(edges_attributes, reltype, out.attr)
    /\ classified' = classified + 1
    /\ UNCHANGED <<inputs, pc, issued, failed_row, seed_ids, paths, done_paths,
                   nodes_ids, nodes_features, tmp_edges, kind, error, result>>

\* lines 174-181, one item of tmp_edges whose type the schema lacks
ClassifyRaises ==
    /\ pc = "classify"
    /\ classified < Len(tmp_edges)
    /\ LET reltype == tmp_edges[classified + 1][1]
           look == SchemaLookup(relationships, reltype)
       IN  /\ ~look.ok
           /\ edges_indices' = Put(edges_indices, reltype, <<>>)
           /\ edges_attributes' = Put(edges_attributes, reltype, <<>>)
           /\ Finish([kind |-> "raised", error |-> look.error, result |-> <<>>])
    /\ UNCHANGED <<inputs, issued, failed_row, seed_ids, paths, done_paths, nodes_ids,
                   nodes_features, tmp_edges, classified>>

\* lines 210-211
Return ==
    /\ pc = "classify"
    /\ classified = Len(tmp_edges)
    /\ Finish([kind |-> "returned", error |-> "",
               result |-> <<Snapshot(nodes_ids, nodes_features,
                                     edges_indices, edges_attributes)>>])
    /\ UNCHANGED <<inputs, issued, failed_row, seed_ids, paths, done_paths, nodes_ids,
                   nodes_features, tmp_edges, edges_indices, edges_attributes,
                   classified>>

Next ==
    \/ RunFilterQuery
    \/ FilterQueryFails
    \/ ReturnEmpty
    \/ RunExpandQuery
    \/ ExpandQueryFails
    \/ ProcessPath
    \/ StartClassify
    \/ ClassifyRelType
    \/ ClassifyRaises
    \/ Return

Spec == Init /\ [][Next]_vars

\* ============================================================ properties
NoDup(s) == \A i, j \in 1..Len(s) : i # j => s[i] # s[j]

GetOr(d, k, default) == IF Has(d, k) THEN Get(d, k) ELSE default

\* the relationship identities traversed by the paths of the expansion result
TraversedRels == UNION {Range(paths[i].relationships) : i \in 1..Len(paths)}

\* the schema entries of rel_def whose declared pair the endpoints of e carry
MatchingTypes(rel_def, e) ==
    { j \in 1..Len(rel_def) :
        /\ rel_def[j][2].source \in Range(e[4])
        /\ rel_def[j][2].target \in Range(e[5]) }

RECURSIVE CountColumns(_)
CountColumns(typed) ==
    IF typed = <<>> THEN 0 ELSE Len(Head(typed)[2][1]) + CountColumns(Tail(typed))

RECURSIVE IsSubseq(_, _)
IsSubseq(a, b) ==
    IF a = <<>> THEN TRUE
    ELSE IF b = <<>> THEN FALSE
    ELSE IF Head(a) = Head(b) THEN IsSubseq(Tail(a), Tail(b))
    ELSE IsSubseq(a, Tail(b))

Returned == pc = "done" /\ kind = "returned"

SnapshotFields == {"nodes_ids", "nodes_features", "edges_indices", "edges_attributes"}

\* C1: in every state of the call, hence after every processed path, and in
\* the returned nodes_ids, no node identity occurs twice in a label bucket.
C1_NoDuplicateInBucket ==
    /\ \A i \in 1..Len(nodes_ids) : NoDup(nodes_ids[i][2])
    /\ Returned =>
         \A i \in 1..Len(result[1].nodes_ids) : NoDup(result[1].nodes_ids[i][2])

\* C1 witness: the two-label node 3 lies on two paths that were both processed.
C1_Witness ==
    /\ Returned
    /\ \E i, j \in 1..Len(paths) :
         i < j /\ 3 \in Range(paths[i].nodes) /\ 3 \in Range(paths[j].nodes)
    /\ Has(nodes_ids, "User") /\ Has(nodes_ids, "Repo")

\* C2 (as claimed): once all paths are processed, the number of raw entries of
\* each relationship type equals the number of distinct relationship instances
\* of that type that the paths traverse.
C2_OncePerRelationship ==
    pc = "classify" =>
      \A R \in RelTypes :
        Len(GetOr(tmp_edges, R, <<>>))
          = Cardinality({i \in TraversedRels : store_rels[i].type = R})

\* C3 (as claimed): a raw edge contributes one column to one sub-type group,
\* however many label pairs of its endpoints match: the columns of a
\* relationship type number as many as its raw edges that match at all.
C3_FirstPairOnly ==
    Returned =>
      \A R \in Keys(edges_indices) :
        LET raw == Get(tmp_edges, R)
            rel_def == Get(relationships, R)
        IN  CountColumns(Get(edges_indices, R))
              = Cardinality({i \in 1..Len(raw) : MatchingTypes(rel_def, raw[i]) # {}})

\* C4: every column (s, d) of edges_indices[R][T] is a relationship of type R
\* of the store that starts at s and ends at d, s carrying the source label and
\* d the target label declared for T; the one owns edge 1 -> 2 under the schema
\* owns_repo = (User, Repo) gives [[1], [2]].
C4_DirectionPreserved ==
    Returned =>
      LET ei == result[1].edges_indices
      IN  /\ \A R \in Keys(ei) : \A T \in Keys(Get(ei, R)) :
                LET idx == Get(Get(ei, R), T)
                    decl == Get(Get(relationships, R), T)
                IN  \A c \in 1..Len(idx[1]) :
                      \E i \in 1..Len(store_rels) :
                        /\ store_rels[i].type = R
                        /\ store_rels[i].start = idx[1][c]
                        /\ store_rels[i].end = idx[2][c]
                        /\ decl.source \in Range(NodeLabels(idx[1][c]))
                        /\ decl.target \in Range(NodeLabels(idx[2][c]))
          /\ ( /\ Has(tmp_edges, "owns")
               /\ Len(Get(tmp_edges, "owns")) = 1
               /\ Get(tmp_edges, "owns")[1][1] = 1
               /\ Get(tmp_edges, "owns")[1][2] = 2
               /\ Get(relationships, "owns")
                    = << <<"owns_repo", [source |-> "User", target |-> "Repo"]>> >> )
             => /\ Has(Get(ei, "owns"), "owns_repo")
                /\ Get(Get(ei, "owns"), "owns_repo") = << <<1>>, <<2>> >>

\* C4 witness: the call returned with the one owns edge 1 -> 2 in owns_repo.
C4_Witness ==
    /\ Returned
    /\ Has(tmp_edges, "owns")
    /\ Len(Get(tmp_edges, "owns")) = 1
    /\ Has(edges_indices, "owns")
    /\ Has(Get(edges_indices, "owns"), "owns_repo")
    /\ Get(Get(edges_indices, "owns"), "owns_repo") = << <<1>>, <<2>> >>

UnknownTypeInData == \E R \in Keys(tmp_edges) : ~Has(relationships, R)

C6_CompleteOrFails ==
    /\ failed_row >= 0 => pc = "done" /\ kind = "raised" /\ result = <<>>
    /\ kind = "returned" =>
         /\ failed_row = -1
         /\ Len(result) = 1
         /\ IF seed_rows = <<>>
            THEN result[1] = Snapshot(<<>>, <<>>, <<>>, <<>>)
            ELSE LET full == ExpandRows(store_rels, Range(seed_rows), depth)
                     ni == result[1].nodes_ids
                 IN  /\ \A i \in 1..Len(full) : \A n \in Range(full[i].nodes) :
                           \A lab \in Range(NodeLabels(n)) :
                             Has(ni, lab) /\ n \in Range(Get(ni, lab))
                     /\ \A i \in 1..Len(full) : \A r \in Range(full[i].relationships) :
                           Has(result[1].edges_indices, store_rels[r].type)
                     /\ paths = full /\ done_paths = Len(full)
    /\ kind = "raised" => result = <<>>

\* C6 witness: the store raised while the expansion result was being read,
\* after it had given at least one path.
C6_Witness ==
    /\ failed_row >= 1
    /\ issued = <<"filter", "expand">>
    /\ pc = "done"

\* C7: a filter query that matches no node gives the empty snapshot, without
\* an error and without the expansion query being issued.
C7_EmptySeeds ==
    (seed_rows = <<>> /\ failed_row = -1) =>
      /\ "expand" \notin Range(issued)
      /\ kind # "raised"
      /\ pc = "done" =>
           /\ kind = "returned"
           /\ result = <<Snapshot(<<>>, <<>>, <<>>, <<>>)>>
           /\ issued = <<"filter">>

\* C7 witness: the call returned on an empty seed set.
C7_Witness == Returned /\ seed_rows = <<>> /\ seed_ids = <<>>

\* C8: every edges_indices[R][T] returned is 2 x M with M >= 1, and
\* edges_attributes[R][T] has M entries, entry i being the property map of
\* the raw edge that gave column i, the columns in the order of the raw edges.
C8_Aligned ==
    Returned =>
      LET ei == result[1].edges_indices
          ea == result[1].edges_attributes
      IN  /\ Keys(ei) = Keys(ea)
          /\ \A R \in Keys(ei) :
               /\ Keys(Get(ei, R)) = Keys(Get(ea, R))
               /\ \A T \in Keys(Get(ei, R)) :
                    LET idx == Get(Get(ei, R), T)
                        attr == Get(Get(ea, R), T)
                        raw == Get(tmp_edges, R)
                    IN  /\ Len(idx) = 2
                        /\ Len(idx[1]) >= 1
                        /\ Len(idx[2]) = Len(idx[1])
                        /\ Len(attr) = Len(idx[1])
                        /\ IsSubseq([c \in 1..Len(attr) |-> <<idx[1][c], idx[2][c], attr[c]>>],
                                    [i \in 1..Len(raw) |-> <<raw[i][1], raw[i][2], raw[i][3]>>])

\* C8 witness: a returned group with two columns of two different relationships.
C8_Witness ==
    /\ Returned
    /\ \E R \in Keys(edges_attributes) : \E T \in Keys(Get(edges_attributes, R)) :
         LET attr == Get(Get(edges_attributes, R), T)
         IN  Len(attr) >= 2 /\ attr[1] # attr[2]

\* C9: a sub-type of the schema that no raw edge of its relationship type can
\* be classified into is no key of edges_indices[R] nor of
\* edges_attributes[R], and no key is present with an empty array; one owns
\* edge Repo -> User under owns_repo = (User, Repo) leaves no owns_repo key.
C9_EmptyOmitted ==
    Returned =>
      LET ei == result[1].edges_indices
          ea == result[1].edges_attributes
      IN  \A R \in Keys(ei) :
            LET rel_def == Get(relationships, R)
                raw == Get(tmp_edges, R)
            IN  /\ \A j \in 1..Len(rel_def) :
                     (\A i \in 1..Len(raw) : j \notin MatchingTypes(rel_def, raw[i]))
                       => /\ rel_def[j][1] \notin Keys(Get(ei, R))
                          /\ rel_def[j][1] \notin Keys(Get(ea, R))
                /\ \A T \in Keys(Get(ei, R)) : Get(Get(ei, R), T)[1] # <<>>
                /\ \A T \in Keys(Get(ea, R)) : Get(Get(ea, R), T) # <<>>

\* C9 witness: the only owns edge runs from Repo node 2 to User node 1 and the
\* returned edges_indices["owns"] has no owns_repo key.
C9_Witness ==
    /\ Returned
    /\ Has(tmp_edges, "owns")
    /\ Len(Get(tmp_edges, "owns")) = 1
    /\ Get(tmp_edges, "owns")[1][1] = 2
    /\ Get(tmp_edges, "owns")[1][2] = 1
    /\ Has(edges_indices, "owns")
    /\ ~Has(Get(edges_indices, "owns"), "owns_repo")

\* the raw edges, over all relationship types of the schema, that no label
\* pair classifies
UnmatchedEdges ==
    UNION { { <<R, i>> : i \in { k \in 1..Len(Get(tmp_edges, R)) :
                                  MatchingTypes(Get(relationships, R),
                                                Get(tmp_edges, R)[k]) = {} } } :
            R \in { Q \in Keys(tmp_edges) : Has(relationships, Q) } }

\* C10 (as claimed): the returned result reports a discard count equal to the
\* number of raw edges that no label pair classified.
C10_DiscardCount ==
    (Returned /\ UnmatchedEdges # {}) =>
      /\ "discard_count" \in DOMAIN result[1]
      /\ result[1].discard_count = Cardinality(UnmatchedEdges)

\* C10 (amended): a raw edge of a schema type that no label pair classifies is
\* in no group of the result and does not fail the call; the result is the
\* four mappings alone, it carries no discard count.
C10_DroppedSilently ==
    /\ (pc = "done" /\ failed_row = -1 /\ ~UnknownTypeInData) => kind = "returned"
    /\ Returned =>
         /\ DOMAIN result[1] = SnapshotFields
         /\ \A u \in UnmatchedEdges :
              LET ea == Get(result[1].edges_attributes, u[1])
                  e == Get(tmp_edges, u[1])[u[2]]
              IN  \A T \in Keys(ea) : e[3] \notin Range(Get(ea, T))

\* C10 witness: the call returned although an edge was dropped.
C10_Witness == Returned /\ UnmatchedEdges # {}

====
